---- MODULE Spec2Model ----
\* A model of the grid pathfinding visualizer of src/src/App.tsx: the
\* painted grid, the three search strategies (BFS, DFS, A*), the search
\* generator that expands one frontier node per resumption, and the
\* signals and handlers of the App component that drive it.
\*
\* Representation.
\*  - A position is the pair <<row, column>>.  generateKey(row, column)
\*    formats the pair as "row-column"; the format is injective on
\*    integers, and keys are only ever compared, so a key is modelled by
\*    the pair itself.
\*  - A cell's state is seven booleans of which the factory methods set at
\*    most one (isActive is never set); the only in-place write is
\*    isPath := false, which yields the all-false state.  A cell is
\*    therefore its kind: Empty, Start, Goal, Wall, Visited, Queued, Path.
\*  - A cell's id is drawn at random when the grid is built and is kept by
\*    every later write to that position; every grid rebuild goes with a
\*    reset that drops the suspended generator.  Ids are taken to be
\*    pairwise distinct, so within one run an id is the cell's position.
EXTENDS Integers, Sequences, FiniteSets, TLC

\* Largest grid the resize sliders reach in the model (the sliders of the
\* program range over 4..64).
MaxRows == 2
MaxCols == 2
\* Most walls the paint and generate actions put on one grid.
MaxWalls == 2
\* Largest grid of the specification SpecNeighbours.
NbRows == 3
NbCols == 3

\* The specification SpecSelect: the grid the queued positions lie on, the
\* longest queue and the largest recorded score.
SelRows == 2
SelCols == 2
SelLen == 3
SelMaxG == 2

\* Grid of the specification SpecScenario.
ScenRows == 5
ScenCols == 5

\* Grid of the specification SpecMaze and the most walls on it.
MazeRows == 3
MazeCols == 3
MazeWalls == 1

\* Grid of the engine-only specification SpecRun.
RunRows == 2
RunCols == 3
\* Most walls on the grid of SpecRun.
RunWalls == 4

STRATEGIES == {"BFS", "DFS", "A*"}
AddingMode == {"START", "GOAL", "WALL"}
CellKinds == {"Empty", "Start", "Goal", "Wall", "Visited", "Queued", "Path"}

\* The value of the start/goal signal before a position is set.
Undefined == <<>>

VARIABLES
    rows, columns,        \* signals rows, columns
    grid,                 \* signal grid: position -> cell kind
    strategy,             \* signal strategy
    isAdding,             \* signal isAdding (mouse button held on the grid)
    addingMode,           \* signal addingMode
    canStep,              \* signal canStep
    searchStarted,        \* signal searchStarted
    isSearching,          \* signal isSearching
    start, goal,          \* signals start, goal
    searchGeneratorRef,   \* "null", or where the generator is suspended:
                          \* "yieldFalse", "yieldTrue"; "hung" when a walk of
                          \* a predecessor map does not return
    genArgs,              \* the generator's arguments [start, goal, strategy]
    queue, visited, parentMap,         \* the generator's locals
    gScore, aParentKeys, aParentMap,   \* fields of the aStarStrategy object
    result,               \* what the last resumption of the generator did
    path                  \* the local path of the step that found the goal

vars == <<rows, columns, grid, strategy, isAdding, addingMode, canStep,
          searchStarted, isSearching, start, goal, searchGeneratorRef, genArgs,
          queue, visited, parentMap, gScore, aParentKeys, aParentMap, result,
          path>>

----------------------------------------------------------------------------
\* Grid model

Abs(x) == IF x < 0 THEN -x ELSE x

generateKey(row, column) == <<row, column>>

Positions(rs, cs) == (0 .. rs - 1) \X (0 .. cs - 1)

initialGrid(rs, cs) == [p \in Positions(rs, cs) |-> "Empty"]

\* Mutant of getNeighbours: the left neighbour is missing.
getNeighboursNoLeft(pos, g) ==
    LET possibleNeighbours == << <<pos[1] - 1, pos[2]>>, <<pos[1] + 1, pos[2]>>,
                                 <<pos[1], pos[2] + 1>> >>
        has(p) == generateKey(p[1], p[2]) \in DOMAIN g
    IN  SelectSeq(possibleNeighbours, has)

\* Mutant of getNeighbours: the right neighbour is listed before the left.
getNeighboursRightFirst(pos, g) ==
    LET possibleNeighbours == << <<pos[1] - 1, pos[2]>>, <<pos[1] + 1, pos[2]>>,
                                 <<pos[1], pos[2] + 1>>, <<pos[1], pos[2] - 1>> >>
        has(p) == generateKey(p[1], p[2]) \in DOMAIN g
    IN  SelectSeq(possibleNeighbours, has)

getNeighbours(pos, g) ==
    LET possibleNeighbours == << <<pos[1] - 1, pos[2]>>, <<pos[1] + 1, pos[2]>>,
                                 <<pos[1], pos[2] - 1>>, <<pos[1], pos[2] + 1>> >>
        has(p) == generateKey(p[1], p[2]) \in DOMAIN g
    IN  SelectSeq(possibleNeighbours, has)

manhattanDistance(a, b) == Abs(a[1] - b[1]) + Abs(a[2] - b[2])

\* m with key k bound to v (Map.prototype.set)
MapSet(m, k, v) == [x \in (DOMAIN m) \cup {k} |-> IF x = k THEN v ELSE m[x]]

EmptyMap == [x \in {} |-> <<>>]

Range(s) == {s[i] : i \in 1 .. Len(s)}

\* F applied to the value of v, v being evaluated once (const x = v; F(x))
Let(v, F(_)) == CHOOSE y \in {F(x) : x \in {v}} : TRUE

----------------------------------------------------------------------------
\* Strategies.  getNextNode removes one element of the queue and returns it
\* with the queue that is left; node is Undefined for null.

RemoveAt(q, i) == SubSeq(q, 1, i - 1) \o SubSeq(q, i + 1, Len(q))

\* Mutant of bfsGetNextNode: removes from the back (pop for shift).
bfsGetNextNodeFromBack(q) ==
    IF q = <<>> THEN [node |-> Undefined, queue |-> q]
    ELSE [node |-> q[Len(q)], queue |-> SubSeq(q, 1, Len(q) - 1)]

bfsGetNextNode(q) ==
    IF q = <<>> THEN [node |-> Undefined, queue |-> q]
    ELSE [node |-> Head(q), queue |-> Tail(q)]

dfsGetNextNode(q) ==
    IF q = <<>> THEN [node |-> Undefined, queue |-> q]
    ELSE [node |-> q[Len(q)], queue |-> SubSeq(q, 1, Len(q) - 1)]

\* this.gScore.get(key) || 0
GOrZero(gs, pos) == IF pos \in DOMAIN gs THEN gs[pos] ELSE 0

\* f = g + h of the queue's i-th element
FScore(q, i, goalPos, gs) == GOrZero(gs, q[i]) + manhattanDistance(q[i], goalPos)

\* Mutant of aStarMinIndex: the comparison is turned round, the scan keeps
\* the first index with the largest f.
aStarMaxIndex(q, goalPos, gs) ==
    CHOOSE i \in 1 .. Len(q) :
        /\ \A j \in 1 .. Len(q) : FScore(q, i, goalPos, gs) >= FScore(q, j, goalPos, gs)
        /\ \A j \in 1 .. (i - 1) : FScore(q, j, goalPos, gs) < FScore(q, i, goalPos, gs)

\* Mutant of aStarMinIndex: the scan compares with <=, an equal f moves the
\* index on.
aStarMinIndexLastTie(q, goalPos, gs) ==
    CHOOSE i \in 1 .. Len(q) :
        /\ \A j \in 1 .. Len(q) : FScore(q, i, goalPos, gs) <= FScore(q, j, goalPos, gs)
        /\ \A j \in (i + 1) .. Len(q) : FScore(q, j, goalPos, gs) > FScore(q, i, goalPos, gs)

\* The for loop of getNextNode from index i on; minIndex = 0 stands for the
\* initial minIndex = -1 with minF = Infinity, which every f is below.
RECURSIVE aStarScan(_, _, _, _, _, _)
aStarScan(q, goalPos, gs, i, minF, minIndex) ==
    IF i > Len(q) THEN minIndex
    ELSE IF minIndex = 0 \/ FScore(q, i, goalPos, gs) < minF
    THEN aStarScan(q, goalPos, gs, i + 1, FScore(q, i, goalPos, gs), i)
    ELSE aStarScan(q, goalPos, gs, i + 1, minF, minIndex)

\* The index the scan ends with (1-based; 0 when the queue is empty)
aStarMinIndex(q, goalPos, gs) == aStarScan(q, goalPos, gs, 1, 0, 0)

aStarGetNextNode(q, goalPos, gs) ==
    IF q = <<>> THEN [node |-> Undefined, queue |-> q]
    ELSE LET minIndex == aStarMinIndex(q, goalPos, gs)
         IN  [node |-> q[minIndex], queue |-> RemoveAt(q, minIndex)]

getNextNode(strat, q, goalPos, gs) ==
    CASE strat = "BFS" -> bfsGetNextNode(q)
      [] strat = "DFS" -> dfsGetNextNode(q)
      [] strat = "A*"  -> aStarGetNextNode(q, goalPos, gs)

\* Mutant of aStarInitialize: the maps of the last run are not cleared.
aStarInitializeKeeping(startPos) ==
    [gScore |-> MapSet(gScore, startPos, 0), keys |-> aParentKeys,
     parentMap |-> aParentMap]

\* aStarStrategy.initialize: both maps cleared, the start's score set to 0.
aStarInitialize(startPos) ==
    [gScore |-> MapSet(EmptyMap, startPos, 0), keys |-> <<>>, parentMap |-> EmptyMap]

\* aStarStrategy.processNeighbour on the strategy's fields a = [gScore, keys,
\* parentMap]; keys is the insertion order of parentMap's keys (a key set
\* again keeps its place).  Returns the fields and the boolean result.
aStarProcessNeighbour(a, currentPos, neighbour) ==
    LET tentativeGScore == GOrZero(a.gScore, currentPos) + 1
    IN  IF neighbour \notin DOMAIN a.gScore \/ tentativeGScore < a.gScore[neighbour]
        THEN [gScore    |-> MapSet(a.gScore, neighbour, tentativeGScore),
              keys      |-> IF neighbour \in DOMAIN a.parentMap THEN a.keys
                            ELSE Append(a.keys, neighbour),
              parentMap |-> MapSet(a.parentMap, neighbour, currentPos),
              ok        |-> TRUE]
        ELSE [gScore |-> a.gScore, keys |-> a.keys, parentMap |-> a.parentMap,
              ok |-> FALSE]

\* bfsStrategy / dfsStrategy processNeighbour: always true, nothing recorded.
plainProcessNeighbour(a, currentPos, neighbour) ==
    [gScore |-> a.gScore, keys |-> a.keys, parentMap |-> a.parentMap, ok |-> TRUE]

processNeighbour(strat, a, currentPos, neighbour) ==
    IF strat = "A*" THEN aStarProcessNeighbour(a, currentPos, neighbour)
    ELSE plainProcessNeighbour(a, currentPos, neighbour)

\* A backward walk over a predecessor map from pos: the positions met while
\* the map has an entry.  A walk longer than the number of positions of the
\* grid is on a cycle and never returns in the program: diverged.
RECURSIVE WalkParents(_, _, _, _)
WalkParents(pm, pos, acc, fuel) ==
    IF pos \notin DOMAIN pm THEN [path |-> acc, diverged |-> FALSE]
    ELSE IF fuel = 0 THEN [path |-> acc, diverged |-> TRUE]
    ELSE WalkParents(pm, pm[pos], Append(acc, pos), fuel - 1)

\* aStarStrategy.getOptimalPath: from the last-inserted key of parentMap, the
\* chain of parents (the key itself is not part of the path).
getOptimalPath(keys, pm, fuel) ==
    IF keys = <<>> THEN [path |-> <<>>, diverged |-> FALSE]
    ELSE LET w == WalkParents(pm, keys[Len(keys)], <<>>, fuel)
         IN  [path |-> [i \in 1 .. Len(w.path) |-> pm[w.path[i]]],
              diverged |-> w.diverged]

----------------------------------------------------------------------------
\* The search generator.  Its state between resumptions is the record
\*   e = [grid, queue, visited, parentMap, a]
\* where grid is the grid signal, queue/visited/parentMap are the locals and
\* a = [gScore, keys, parentMap] are the fields of the aStarStrategy object.

StrategyFields(e) == [gScore |-> e.gScore, keys |-> e.keys, parentMap |-> e.parentMap]

\* Code before the loop: the frontier is the start's neighbours, the start is
\* visited, the strategy is initialized, each seeded neighbour's parent is
\* the start.
SearchPrologue(g, startPos, strat, a) ==
    LET neighbours == getNeighbours(startPos, g)
    IN  [grid      |-> g,
         queue     |-> neighbours,
         visited   |-> {startPos},
         parentMap |-> [p \in Range(neighbours) |-> startPos],
         a         |-> IF strat = "A*" THEN aStarInitialize(startPos) ELSE a]

\* path.forEach / optimalPath.forEach: every listed cell whose kind is not
\* in keep becomes a Path cell.
TagPath(g, cells, keep) ==
    [p \in DOMAIN g |-> IF p \in cells /\ g[p] \notin keep THEN "Path" ELSE g[p]]

\* cell.state.isPath = false on every cell
ClearPath(g) == [p \in DOMAIN g |-> IF g[p] = "Path" THEN "Empty" ELSE g[p]]

\* Mutant of TagQueued: a Visited cell in the queue is tagged as well.
TagQueuedOverVisited(g, cells) ==
    [p \in DOMAIN g |->
        IF p \in cells /\ g[p] \notin {"Goal", "Start", "Wall"}
        THEN "Queued" ELSE g[p]]

\* queue.forEach: every queued cell that is not Goal, Start, Visited or Wall
\* becomes a Queued cell.
TagQueued(g, cells) ==
    [p \in DOMAIN g |->
        IF p \in cells /\ g[p] \notin {"Goal", "Start", "Visited", "Wall"}
        THEN "Queued" ELSE g[p]]

\* Mutant of NeighbourOpen: the visited test is missing.
NeighbourOpenToVisited(e, n) == e.grid[n] # "Wall"

\* Mutant of NeighbourOpen: the wall test is missing.
NeighbourOpenToWalls(e, n) == n \notin e.visited

\* Whether the neighbour loop takes neighbour n at all.
NeighbourOpen(e, n) == n \notin e.visited /\ e.grid[n] # "Wall"

\* One iteration of nextNeighbours.forEach on neighbour n.
RelaxNeighbour(e, strat, currentPos, n) ==
    IF ~NeighbourOpen(e, n) THEN e
    ELSE Let(processNeighbour(strat, e.a, currentPos, n),
             LAMBDA r :
                 IF r.ok
                 THEN [e EXCEPT !.a = StrategyFields(r),
                                !.queue = Append(@, n),
                                !.parentMap = MapSet(@, n, currentPos)]
                 ELSE [e EXCEPT !.a = StrategyFields(r)])

\* nextNeighbours.forEach, from the i-th neighbour on.
RECURSIVE RelaxNeighbours(_, _, _, _, _)
RelaxNeighbours(e, strat, currentPos, ns, i) ==
    IF i > Len(ns) THEN e
    ELSE Let(RelaxNeighbour(e, strat, currentPos, ns[i]),
             LAMBDA e1 : RelaxNeighbours(e1, strat, currentPos, ns, i + 1))

Outcome(e, out, p) ==
    [grid |-> e.grid, queue |-> e.queue, visited |-> e.visited,
     parentMap |-> e.parentMap, a |-> e.a, out |-> out, path |-> p]

\* The goal branch: the path is walked back over parentMap from the goal
\* and every cell on it that is not the Goal becomes a Path cell.
FoundGoal(e, current) ==
    Let(WalkParents(e.parentMap, current, <<>>, Cardinality(DOMAIN e.grid)),
        LAMBDA w :
            IF w.diverged THEN Outcome(e, "hang", <<>>)
            ELSE Outcome([e EXCEPT !.grid = TagPath(@, Range(w.path), {"Goal"})],
                         "return", w.path))

\* The grid after the redraw of a step that did not find the goal: A* clears
\* and redraws its path, the others mark the current cell Visited.
Redraw(g, strat, current, optimalPath) ==
    IF strat = "A*"
    THEN TagPath(ClearPath(g), Range(optimalPath), {"Goal", "Start"})
    ELSE [g EXCEPT ![current] = "Visited"]

\* The frontier pass that ends the loop body (not run for A*).
RedrawQueue(e, strat) ==
    IF strat # "A*" THEN [e EXCEPT !.grid = TagQueued(@, Range(e.queue))] ELSE e

\* The rest of the loop body for a node that is not the goal.
ExpandNode(e, strat, current) ==
    Let(IF strat = "A*"
        THEN getOptimalPath(e.a.keys, e.a.parentMap, Cardinality(DOMAIN e.grid))
        ELSE [path |-> <<>>, diverged |-> FALSE],
        LAMBDA op :
            IF op.diverged THEN Outcome(e, "hang", <<>>)
            ELSE Let([e EXCEPT !.grid = Redraw(@, strat, current, op.path)],
                     LAMBDA e1 :
                         Let(RelaxNeighbours(e1, strat, current,
                                             getNeighbours(current, e.grid), 1),
                             LAMBDA e2 :
                                 Outcome(RedrawQueue(e2, strat), "yieldFalse", <<>>))))

\* Mutant of Skipped: a selected node that was expanded before is not dropped.
SkippedButVisited(e, current) == e.grid[current] \in {"Wall", "Start"}

\* Whether the loop drops the node it selected (the two continue statements).
Skipped(e, current) ==
    \/ e.grid[current] \in {"Wall", "Start"}
    \/ current \in e.visited

\* The loop body for the node getNextNode returned, the queue being rest.
LoopBody(e, strat, current, rest) ==
    Let([e EXCEPT !.queue = rest, !.visited = @ \cup {current}],
        LAMBDA e2 :
            IF e.grid[current] = "Goal" THEN FoundGoal(e2, current)
            ELSE ExpandNode(e2, strat, current))

\* The while loop from its condition up to the next yield or return.
RECURSIVE SearchLoop(_, _, _)
SearchLoop(e, strat, goalPos) ==
    IF e.queue = <<>> THEN Outcome(e, "yieldTrue", <<>>)
    ELSE Let(getNextNode(strat, e.queue, goalPos, e.a.gScore),
             LAMBDA sel :
                 IF sel.node = Undefined
                 THEN Outcome([e EXCEPT !.queue = sel.queue], "yieldTrue", <<>>)
                 ELSE IF Skipped(e, sel.node)
                 THEN Let([e EXCEPT !.queue = sel.queue],
                          LAMBDA e1 : SearchLoop(e1, strat, goalPos))
                 ELSE LoopBody(e, strat, sel.node, sel.queue))

\* One resumption of the generator: the prologue first when it is fresh.
Resume(fresh, g, args, q, v, pm, a) ==
    Let(IF fresh THEN SearchPrologue(g, args.start, args.strategy, a)
        ELSE [grid |-> g, queue |-> q, visited |-> v, parentMap |-> pm, a |-> a],
        LAMBDA e : SearchLoop(e, args.strategy, args.goal))

----------------------------------------------------------------------------
\* The driver

NoArgs == [start |-> Undefined, goal |-> Undefined, strategy |-> "none"]

\* Mutant of TimerOn: canStep is not consulted.
TimerOnIgnoringCanStep == isSearching /\ start # Undefined /\ goal # Undefined

\* The delay function of createTimer: the interval runs while it returns a
\* number and is cleared while it returns false.
TimerOn == isSearching /\ start # Undefined /\ goal # Undefined /\ canStep

\* What a resumption reports, in the terms of the step results
StepResult(out) ==
    CASE out = "yieldFalse" -> "Continue"
      [] out = "yieldTrue"  -> "Exhausted"
      [] out = "return"     -> "Found"

\* searchWrapper, called by the timer: creates the generator when there is
\* none, resumes it once, and sets canStep to !done.
searchWrapper ==
    /\ TimerOn
    /\ searchGeneratorRef # "hung"
    /\ IF searchGeneratorRef = "yieldTrue"
       THEN \* resumed after the last yield: the generator returns, done
            /\ canStep' = FALSE
            /\ searchGeneratorRef' = "null"
            /\ genArgs' = NoArgs
            /\ queue' = <<>> /\ visited' = {} /\ parentMap' = EmptyMap
            /\ UNCHANGED <<grid, gScore, aParentKeys, aParentMap, result, path>>
       ELSE LET fresh == searchGeneratorRef = "null"
                args  == IF fresh
                         THEN [start |-> start, goal |-> goal, strategy |-> strategy]
                         ELSE genArgs
                a     == [gScore |-> gScore, keys |-> aParentKeys,
                          parentMap |-> aParentMap]
            IN  \E o \in {Resume(fresh, grid, args, queue, visited, parentMap, a)} :
                /\ gScore' = o.a.gScore
                /\ aParentKeys' = o.a.keys
                /\ aParentMap' = o.a.parentMap
                /\ IF o.out = "hang"
                   THEN /\ searchGeneratorRef' = "hung"
                        /\ genArgs' = args
                        /\ queue' = o.queue /\ visited' = o.visited
                        /\ parentMap' = o.parentMap
                        /\ UNCHANGED <<grid, canStep, result, path>>
                   ELSE /\ grid' = o.grid
                        /\ result' = StepResult(o.out)
                        /\ path' = o.path
                        /\ canStep' = (o.out # "return")
                        /\ IF o.out = "return"
                           THEN /\ searchGeneratorRef' = "null"
                                /\ genArgs' = NoArgs
                                /\ queue' = <<>> /\ visited' = {}
                                /\ parentMap' = EmptyMap
                           ELSE /\ searchGeneratorRef' = o.out
                                /\ genArgs' = args
                                /\ queue' = o.queue /\ visited' = o.visited
                                /\ parentMap' = o.parentMap
    /\ UNCHANGED <<rows, columns, strategy, isAdding, addingMode, searchStarted,
                   isSearching, start, goal>>

----------------------------------------------------------------------------
\* The handlers of the App and Grid components

WallCount(g) == Cardinality({p \in DOMAIN g : g[p] = "Wall"})

\* reset(), followed by the writes of grid, start and goal the caller makes
\* after it (reset itself leaves initialGrid and undefined positions).  The
\* generator is dropped; the fields of the aStarStrategy object stay.
ResetThen(g, s, t) ==
    /\ start' = s
    /\ goal' = t
    /\ canStep' = TRUE
    /\ isSearching' = FALSE
    /\ searchStarted' = FALSE
    /\ addingMode' = "START"
    /\ searchGeneratorRef' = "null"
    /\ genArgs' = NoArgs
    /\ queue' = <<>> /\ visited' = {} /\ parentMap' = EmptyMap
    /\ grid' = g
    /\ result' = "None"
    /\ path' = <<>>
    /\ UNCHANGED <<gScore, aParentKeys, aParentMap>>

\* The RESET button
reset ==
    /\ ResetThen(initialGrid(rows, columns), Undefined, Undefined)
    /\ UNCHANGED <<rows, columns, strategy, isAdding>>

\* Mutant of validateConstraints: nothing is refused.
validateNothing(g, mode) == TRUE

\* validateConstraints: no second Start, no second Goal
validateConstraints(g, mode) ==
    /\ ~(mode = "START" /\ \E p \in DOMAIN g : g[p] = "Start")
    /\ ~(mode = "GOAL" /\ \E p \in DOMAIN g : g[p] = "Goal")

\* CellFactory.build
build(mode) ==
    CASE mode = "START" -> "Start"
      [] mode = "GOAL"  -> "Goal"
      [] mode = "WALL"  -> "Wall"

\* The cell maybeAdd writes over cell: the default cell with the meta key,
\* the cell of the mode when the constraints allow it, else the cell itself.
newCellOf(g, cell, mode, metaKey) ==
    IF metaKey THEN "Empty"
    ELSE IF validateConstraints(g, mode) THEN build(mode)
    ELSE cell

\* Whether maybeAdd resets instead of painting
resetsOnClick(clickedCell) ==
    \/ isSearching /\ clickedCell \in {"Start", "Goal"}
    \/ searchStarted /\ clickedCell = "Start"

\* Mutant of maybeAdd: canStep is not tested.
maybeAddAfterTheRun(pos, metaKey) ==
    IF resetsOnClick(grid[pos])
    THEN /\ ResetThen(initialGrid(rows, columns), Undefined, Undefined)
         /\ UNCHANGED <<rows, columns, strategy>>
    ELSE IF grid[pos] \in {"Visited", "Queued", "Goal", "Start"}
    THEN UNCHANGED <<rows, columns, grid, strategy, addingMode, canStep,
                     searchStarted, isSearching, start, goal, searchGeneratorRef,
                     genArgs, queue, visited, parentMap, gScore, aParentKeys,
                     aParentMap, result, path>>
    ELSE LET newCell == newCellOf(grid, grid[pos], addingMode, metaKey)
         IN  /\ grid' = [grid EXCEPT ![pos] = newCell]
             /\ WallCount(grid') <= MaxWalls
             /\ start' = IF newCell = "Start" THEN pos ELSE start
             /\ goal' = IF newCell = "Goal" THEN pos ELSE goal
             /\ addingMode' = CASE newCell = "Start" -> "GOAL"
                                [] newCell = "Goal"  -> "WALL"
                                [] OTHER             -> addingMode
             /\ UNCHANGED <<rows, columns, strategy, canStep, searchStarted,
                            isSearching, searchGeneratorRef, genArgs, queue,
                            visited, parentMap, gScore, aParentKeys, aParentMap,
                            result, path>>

\* maybeAdd past its isAdding/clicked test, on the cell at pos: everything
\* but isAdding.
maybeAdd(pos, metaKey) ==
    IF ~canStep
    THEN UNCHANGED <<rows, columns, grid, strategy, addingMode, canStep,
                     searchStarted, isSearching, start, goal, searchGeneratorRef,
                     genArgs, queue, visited, parentMap, gScore, aParentKeys,
                     aParentMap, result, path>>
    ELSE IF resetsOnClick(grid[pos])
    THEN /\ ResetThen(initialGrid(rows, columns), Undefined, Undefined)
         /\ UNCHANGED <<rows, columns, strategy>>
    ELSE IF grid[pos] \in {"Visited", "Queued", "Goal", "Start"}
    THEN UNCHANGED <<rows, columns, grid, strategy, addingMode, canStep,
                     searchStarted, isSearching, start, goal, searchGeneratorRef,
                     genArgs, queue, visited, parentMap, gScore, aParentKeys,
                     aParentMap, result, path>>
    ELSE LET newCell == newCellOf(grid, grid[pos], addingMode, metaKey)
         IN  /\ grid' = [grid EXCEPT ![pos] = newCell]
             /\ WallCount(grid') <= MaxWalls
             /\ start' = IF newCell = "Start" THEN pos ELSE start
             /\ goal' = IF newCell = "Goal" THEN pos ELSE goal
             /\ addingMode' = CASE newCell = "Start" -> "GOAL"
                                [] newCell = "Goal"  -> "WALL"
                                [] OTHER             -> addingMode
             /\ UNCHANGED <<rows, columns, strategy, canStep, searchStarted,
                            isSearching, searchGeneratorRef, genArgs, queue,
                            visited, parentMap, gScore, aParentKeys, aParentMap,
                            result, path>>

\* mousedown on a cell
handleMouseDown ==
    \E pos \in DOMAIN grid, metaKey \in BOOLEAN :
        /\ isAdding' = TRUE
        /\ maybeAdd(pos, metaKey)

\* mousemove over a cell: paints only while the button is held
mouseMove ==
    \E pos \in DOMAIN grid, metaKey \in BOOLEAN :
        /\ isAdding
        /\ maybeAdd(pos, metaKey)
        /\ UNCHANGED isAdding

\* mouseup, mouseleave
stopAdding ==
    /\ isAdding' = FALSE
    /\ UNCHANGED <<rows, columns, grid, strategy, addingMode, canStep,
                   searchStarted, isSearching, start, goal, searchGeneratorRef,
                   genArgs, queue, visited, parentMap, gScore, aParentKeys,
                   aParentMap, result, path>>

\* A click on one of the S, G, W controls
handleModeClick ==
    \E mode \in AddingMode :
        /\ canStep
        /\ addingMode' = mode
        /\ UNCHANGED <<rows, columns, grid, strategy, isAdding, canStep,
                       searchStarted, isSearching, start, goal, searchGeneratorRef,
                       genArgs, queue, visited, parentMap, gScore, aParentKeys,
                       aParentMap, result, path>>

canSearch == start # Undefined /\ goal # Undefined

\* Mutant of searchButton: SEARCH drops the suspended generator, the run
\* starts over.
searchButtonRestarting ==
    /\ IF isSearching THEN canStep ELSE canSearch
    /\ IF isSearching
       THEN /\ isSearching' = FALSE
            /\ UNCHANGED <<searchStarted, searchGeneratorRef>>
       ELSE /\ searchStarted' = TRUE
            /\ isSearching' = TRUE
            /\ searchGeneratorRef' = "null"
    /\ UNCHANGED <<rows, columns, grid, strategy, isAdding, addingMode, canStep,
                   start, goal, genArgs, queue, visited, parentMap, gScore,
                   aParentKeys, aParentMap, result, path>>

\* The SEARCH / STOP button; it is disabled while
\* (isSearching ? !canStep : !canSearch).
searchButton ==
    /\ IF isSearching THEN canStep ELSE canSearch
    /\ IF isSearching
       THEN /\ isSearching' = FALSE
            /\ UNCHANGED searchStarted
       ELSE /\ searchStarted' = TRUE
            /\ isSearching' = TRUE
    /\ UNCHANGED <<rows, columns, grid, strategy, isAdding, addingMode, canStep,
                   start, goal, searchGeneratorRef, genArgs, queue, visited,
                   parentMap, gScore, aParentKeys, aParentMap, result, path>>

\* Mutant of generate: the new grid is set without the reset before it.
generateNoReset ==
    \E W \in SUBSET (DOMAIN grid \ {start, goal}) :
        /\ Cardinality(W) <= MaxWalls
        /\ grid' = [p \in DOMAIN grid |->
                      IF p = start THEN "Start" ELSE IF p = goal THEN "Goal"
                      ELSE IF p \in W THEN "Wall" ELSE "Empty"]
        /\ UNCHANGED <<rows, columns, strategy, isAdding, addingMode, canStep,
                       searchStarted, isSearching, start, goal, searchGeneratorRef,
                       genArgs, queue, visited, parentMap, gScore, aParentKeys,
                       aParentMap, result, path>>

\* The GENERATE button: reset, then a grid of walls drawn from the noise
\* function with Start and Goal put back where they were.
generate ==
    \E W \in SUBSET (DOMAIN grid \ {start, goal}) :
        /\ Cardinality(W) <= MaxWalls
        /\ ResetThen([p \in DOMAIN grid |->
                        IF p = start THEN "Start" ELSE IF p = goal THEN "Goal"
                        ELSE IF p \in W THEN "Wall" ELSE "Empty"],
                     start, goal)
        /\ UNCHANGED <<rows, columns, strategy, isAdding>>

\* Mutant of onStrategyChange: the strategy is set without a reset.
onStrategyChangeNoReset ==
    \E value \in STRATEGIES \ {strategy} :
        /\ strategy' = value
        /\ UNCHANGED <<rows, columns, grid, isAdding, addingMode, canStep,
                       searchStarted, isSearching, start, goal, searchGeneratorRef,
                       genArgs, queue, visited, parentMap, gScore, aParentKeys,
                       aParentMap, result, path>>

\* The strategy select: a reset first when a search has been started.
onStrategyChange ==
    \E value \in STRATEGIES \ {strategy} :
        /\ strategy' = value
        /\ IF searchStarted
           THEN ResetThen(initialGrid(rows, columns), Undefined, Undefined)
           ELSE UNCHANGED <<grid, addingMode, canStep, searchStarted, isSearching,
                            start, goal, searchGeneratorRef, genArgs, queue, visited,
                            parentMap, gScore, aParentKeys, aParentMap, result, path>>
        /\ UNCHANGED <<rows, columns, isAdding>>

\* The rows and columns sliders: the two effects on rows/columns rebuild the
\* grid and reset.
resize ==
    \E r \in 1 .. MaxRows, c \in 1 .. MaxCols :
        /\ (r = rows) # (c = columns)
        /\ rows' = r
        /\ columns' = c
        /\ ResetThen(initialGrid(r, c), Undefined, Undefined)
        /\ UNCHANGED <<strategy, isAdding>>

Init ==
    /\ rows = MaxRows /\ columns = MaxCols
    /\ grid = initialGrid(MaxRows, MaxCols)
    /\ strategy = "BFS"
    /\ isAdding = FALSE
    /\ addingMode = "START"
    /\ canStep = TRUE
    /\ searchStarted = FALSE
    /\ isSearching = FALSE
    /\ start = Undefined /\ goal = Undefined
    /\ searchGeneratorRef = "null"
    /\ genArgs = NoArgs
    /\ queue = <<>> /\ visited = {} /\ parentMap = EmptyMap
    /\ gScore = EmptyMap /\ aParentKeys = <<>> /\ aParentMap = EmptyMap
    /\ result = "None"
    /\ path = <<>>

\* While a walk of a predecessor map does not return, no handler runs.
Responsive == searchGeneratorRef # "hung"

Next ==
    \/ searchWrapper
    \/ Responsive /\ handleMouseDown
    \/ Responsive /\ mouseMove
    \/ Responsive /\ stopAdding
    \/ Responsive /\ handleModeClick
    \/ Responsive /\ searchButton
    \/ Responsive /\ reset
    \/ Responsive /\ generate
    \/ Responsive /\ onStrategyChange
    \/ Responsive /\ resize

Spec == Init /\ [][Next]_vars

----------------------------------------------------------------------------
\* SpecRun: one search run on a painted grid, stepped by the timer with no
\* user action in between.  The initial states are the states the SEARCH
\* button leaves: one Start, one Goal, any walls, any strategy.

\* The grid with Start at s, Goal at t and walls on the cells of W
PaintedGrid(rs, cs, s, t, W) ==
    [p \in Positions(rs, cs) |->
        IF p = s THEN "Start" ELSE IF p = t THEN "Goal"
        ELSE IF p \in W THEN "Wall" ELSE "Empty"]

InitRun ==
    /\ rows = RunRows /\ columns = RunCols
    /\ start \in Positions(rows, columns)
    /\ goal \in Positions(rows, columns) \ {start}
    /\ \E W \in SUBSET (Positions(rows, columns) \ {start, goal}) :
           /\ Cardinality(W) <= RunWalls
           /\ grid = PaintedGrid(rows, columns, start, goal, W)
    /\ strategy \in STRATEGIES
    /\ isAdding = FALSE
    /\ addingMode = "WALL"
    /\ canStep = TRUE
    /\ searchStarted = TRUE
    /\ isSearching = TRUE
    /\ searchGeneratorRef = "null"
    /\ genArgs = NoArgs
    /\ queue = <<>> /\ visited = {} /\ parentMap = EmptyMap
    /\ gScore = EmptyMap /\ aParentKeys = <<>> /\ aParentMap = EmptyMap
    /\ result = "None"
    /\ path = <<>>

NextRun == searchWrapper

SpecRun == InitRun /\ [][NextRun]_vars

\* The timer keeps firing while it is on.
FairRun == SpecRun /\ WF_vars(searchWrapper)

----------------------------------------------------------------------------
\* Definitions the properties are stated with

Terminal == result \in {"Found", "Exhausted"}

WallFree(g) == \A p \in DOMAIN g : g[p] # "Wall"

\* The painted grid under the tags a run has drawn on it
BaseGrid(g) ==
    [p \in DOMAIN g |-> IF g[p] \in {"Visited", "Queued", "Path"} THEN "Empty" ELSE g[p]]

\* The cells reachable from the cells of S by orthogonal moves through
\* cells that are not walls
RECURSIVE Closure(_, _)
Closure(g, S) ==
    LET N == S \cup {p \in DOMAIN g :
                        g[p] # "Wall" /\ \E q \in S : manhattanDistance(p, q) = 1}
    IN  IF N = S THEN S ELSE Closure(g, N)

GoalReachable(g, s, t) == t \in Closure(g, {s})

\* A whole run of the generator, resumed until it ends
RECURSIVE RunToEnd(_, _, _)
RunToEnd(e, strat, goalPos) ==
    LET o == SearchLoop(e, strat, goalPos)
    IN  IF o.out = "yieldFalse"
        THEN RunToEnd([grid |-> o.grid, queue |-> o.queue, visited |-> o.visited,
                       parentMap |-> o.parentMap, a |-> o.a], strat, goalPos)
        ELSE o

RunOf(strat, g, s, t) ==
    RunToEnd(SearchPrologue(g, s, strat, aStarInitialize(s)), strat, t)

\* path is a chain of orthogonal moves from the goal back to a neighbour of
\* the start
IsBackwardPath(p, s, t) ==
    /\ Len(p) >= 1
    /\ p[1] = t
    /\ \A i \in 1 .. (Len(p) - 1) : manhattanDistance(p[i], p[i + 1]) = 1
    /\ manhattanDistance(p[Len(p)], s) = 1

----------------------------------------------------------------------------
\* C1: on a grid without walls a BFS run that has ended has ended Found, and
\* the path walked back from the goal to the start has as many moves as the
\* Manhattan distance between start and goal.
C1_BfsPathIsManhattan ==
    (strategy = "BFS" /\ WallFree(grid) /\ Terminal) =>
        /\ result = "Found"
        /\ IsBackwardPath(path, start, goal)
        /\ Len(path) = manhattanDistance(start, goal)

C1_Witness ==
    /\ strategy = "BFS" /\ WallFree(grid) /\ result = "Found"
    /\ Len(path) = 3
    /\ start[1] # goal[1] /\ start[2] # goal[2]

\* C2: when an A* run ends Found, its path has the length of the path a BFS
\* run on the same painted grid ends with.
C2_AStarPathAsLongAsBfs ==
    (strategy = "A*" /\ result = "Found") =>
        LET b == RunOf("BFS", BaseGrid(grid), start, goal)
        IN  /\ b.out = "return"
            /\ Len(path) = Len(b.path)

C2_Witness ==
    /\ strategy = "A*" /\ result = "Found" /\ ~WallFree(grid)
    /\ Len(path) > manhattanDistance(start, goal)

\* C3: a run that has ended has ended Found exactly when the goal is
\* reachable from the start through cells that are not walls, and Exhausted
\* otherwise.
C3_FoundIffReachable ==
    Terminal => (result = "Found" <=> GoalReachable(BaseGrid(grid), start, goal))

C3_Witness ==
    /\ result = "Exhausted" /\ strategy = "DFS"
    /\ \E p \in DOMAIN grid : grid[p] = "Visited"
    /\ \E p \in DOMAIN grid : grid[p] = "Empty"

\* C4: under a timer that keeps firing, every run ends Found or Exhausted
\* and the timer goes off; a run whose goal is unreachable ends Exhausted.
C4_RunTerminates ==
    /\ <>(Terminal /\ ~TimerOn)
    /\ (~GoalReachable(grid, start, goal)) => <>(result = "Exhausted" /\ ~TimerOn)

C4_Witness ==
    /\ result = "Exhausted" /\ ~TimerOn /\ strategy = "A*"
    /\ \E p \in DOMAIN grid : grid[p] = "Path"

\* The cells whose tag the search must leave alone, with their tags
ReservedTags(g) == {<<p, g[p]>> : p \in {q \in DOMAIN g : g[q] \in {"Wall", "Start", "Goal"}}}

\* C5: a resumption of the search leaves every cell tagged Wall, Start or
\* Goal with its tag.
C5_SearchKeepsReservedTags ==
    [][searchWrapper => ReservedTags(grid) \subseteq ReservedTags(grid')]_vars

C7_TimerOffOnceTerminal == Terminal => ~TimerOn

\* A step of a mouse handler that runs maybeAdd on the cell at pos
PaintAt(pos, metaKey) ==
    \/ isAdding' = TRUE /\ maybeAdd(pos, metaKey)
    \/ isAdding /\ maybeAdd(pos, metaKey) /\ UNCHANGED isAdding

\* C8: while the generator is suspended, a step of a handler other than the
\* timer's that changes which cells are Start, Goal or Wall is a reset.
C8_EditMidRunResets ==
    [][(/\ searchGeneratorRef = "yieldFalse"
        /\ ~searchWrapper
        /\ ReservedTags(grid') # ReservedTags(grid))
       => (searchGeneratorRef' = "null" /\ ~searchStarted')]_vars

\* C9: the grid holds at most one Start and at most one Goal, and the start
\* and goal signals hold the position of that cell exactly when there is one.
C9_OneStartOneGoal ==
    /\ Cardinality({p \in DOMAIN grid : grid[p] = "Start"}) <= 1
    /\ Cardinality({p \in DOMAIN grid : grid[p] = "Goal"}) <= 1
    /\ \A p \in DOMAIN grid : (grid[p] = "Start" <=> start = p)
    /\ \A p \in DOMAIN grid : (grid[p] = "Goal" <=> goal = p)
    /\ start \in DOMAIN grid \cup {Undefined}
    /\ goal \in DOMAIN grid \cup {Undefined}

\* Start and Goal put back by generate, among fresh walls
C9_Witness ==
    /\ start # Undefined /\ goal # Undefined
    /\ addingMode = "START" /\ ~searchStarted
    /\ WallCount(grid) > 0

\* C10: a paint in mode START or GOAL on a cell tagged Start, Goal or Wall
\* changes neither the grid nor the start and goal signals nor the mode.
C10_ReservedCellRejectsPlacement ==
    [][\A pos \in DOMAIN grid :
           (/\ addingMode \in {"START", "GOAL"}
            /\ grid[pos] \in {"Start", "Goal", "Wall"}
            /\ PaintAt(pos, FALSE))
           => (grid' = grid /\ start' = start /\ goal' = goal
               /\ addingMode' = addingMode)]_vars

----------------------------------------------------------------------------
\* The fields of the aStarStrategy object as the module creates them
NoFields == [gScore |-> EmptyMap, keys |-> <<>>, parentMap |-> EmptyMap]

\* The state a step leaves is the state after a reset: an empty grid of the
\* current size, no start and goal, no generator, stepping enabled, the
\* search neither running nor started.
AfterReset ==
    /\ grid' = [p \in Positions(rows', columns') |-> "Empty"]
    /\ start' = Undefined /\ goal' = Undefined
    /\ searchGeneratorRef' = "null"
    /\ canStep' /\ ~isSearching' /\ ~searchStarted'

\* The step is the first resumption of a run.
FirstStep == searchGeneratorRef = "null" /\ searchWrapper

\* The state the step leaves is the one a first resumption computes from the
\* grid, the positions and the strategy alone: frontier, visited set and
\* predecessor map hold nothing else, and neither do the scores and
\* predecessors of an A* run.
FreshRun ==
    LET o == Resume(TRUE, grid,
                    [start |-> start, goal |-> goal, strategy |-> strategy],
                    <<>>, {}, EmptyMap, NoFields)
    IN  /\ o.out # "hang"
        /\ grid' = o.grid /\ result' = StepResult(o.out) /\ path' = o.path
        /\ (o.out # "return") =>
               (queue' = o.queue /\ visited' = o.visited /\ parentMap' = o.parentMap)
        /\ (strategy = "A*") =>
               (gScore' = o.a.gScore /\ aParentKeys' = o.a.keys
                /\ aParentMap' = o.a.parentMap)

\* C11: a step of the RESET button leaves the state after a reset, whatever
\* the state it is taken in, and the first resumption of the run started
\* next leaves a frontier, visited set, predecessor map and A* scores that
\* are computed from the grid alone, with nothing of an earlier run in them.
C11_ResetIsTotal ==
    [][(reset => AfterReset) /\ (FirstStep => FreshRun)]_vars

\* A run under way on a grid painted after the reset of an A* run
C11_Witness ==
    /\ searchGeneratorRef = "yieldFalse" /\ strategy = "BFS"
    /\ aParentKeys # <<>>
    /\ \E p \in DOMAIN grid : grid[p] = "Visited"

\* C12: a suspended generator runs the strategy that is selected, and a step
\* that changes the selected strategy once a search has been started leaves
\* the state after a reset.
C12_StrategyChangeResets ==
    /\ [](searchGeneratorRef # "null" =>
              (searchStarted /\ genArgs.strategy = strategy))
    /\ [][(searchStarted /\ strategy' # strategy) => AfterReset]_vars

\* DFS selected after an A* run, on the grid the reset left
C12_Witness ==
    /\ strategy = "DFS" /\ aParentKeys # <<>>
    /\ ~searchStarted /\ searchGeneratorRef = "null"
    /\ grid = initialGrid(rows, columns)

\* C13: a step of the GENERATE button leaves no generator, stepping enabled
\* and the search neither running nor started; Start and Goal are where they
\* were, their positions are recorded, and every other cell is Empty or Wall.
C13_GenerateResetsAndKeepsEnds ==
    [][generate =>
          /\ searchGeneratorRef' = "null"
          /\ canStep' /\ ~isSearching' /\ ~searchStarted'
          /\ start' = start /\ goal' = goal
          /\ DOMAIN grid' = DOMAIN grid
          /\ \A p \in DOMAIN grid :
                 /\ grid'[p] = "Start" <=> (p = start /\ grid[p] = "Start")
                 /\ grid'[p] = "Goal" <=> (p = goal /\ grid[p] = "Goal")
                 /\ grid'[p] \in {"Start", "Goal", "Empty", "Wall"}]_vars

\* Start and Goal among walls, nothing started, after an A* run
C13_Witness ==
    /\ start # Undefined /\ goal # Undefined
    /\ ~searchStarted /\ addingMode = "START" /\ result = "None"
    /\ WallCount(grid) = 2
    /\ strategy = "A*" /\ aParentKeys # <<>>

----------------------------------------------------------------------------
\* SpecNeighbours: getNeighbours alone, called as the first statements of
\* search call it (neighbours = getNeighbours(start, grid()); queue =
\* Array.from(neighbours)), on every grid up to NbRows x NbCols and every
\* position on the grid or one step outside it.  genArgs records the
\* position the call was made with.

InitNeighbours ==
    /\ rows \in 1 .. NbRows /\ columns \in 1 .. NbCols
    /\ grid = initialGrid(rows, columns)
    /\ start \in (-1 .. rows) \X (-1 .. columns)
    /\ goal = Undefined
    /\ strategy = "BFS"
    /\ isAdding = FALSE
    /\ addingMode = "START"
    /\ canStep = TRUE
    /\ searchStarted = FALSE
    /\ isSearching = FALSE
    /\ searchGeneratorRef = "null"
    /\ genArgs = NoArgs
    /\ queue = <<>> /\ visited = {} /\ parentMap = EmptyMap
    /\ gScore = EmptyMap /\ aParentKeys = <<>> /\ aParentMap = EmptyMap
    /\ result = "None"
    /\ path = <<>>

callGetNeighbours ==
    /\ genArgs = NoArgs
    /\ queue' = getNeighbours(start, grid)
    /\ genArgs' = [NoArgs EXCEPT !.start = start]
    /\ UNCHANGED <<rows, columns, grid, strategy, isAdding, addingMode, canStep,
                   searchStarted, isSearching, start, goal, searchGeneratorRef,
                   visited, parentMap, gScore, aParentKeys, aParentMap, result,
                   path>>

NextNeighbours == callGetNeighbours

SpecNeighbours == InitNeighbours /\ [][NextNeighbours]_vars

\* The place of position p among up, down, left, right of pos (0: none)
Direction(p, pos) ==
    CASE p = <<pos[1] - 1, pos[2]>> -> 1
      [] p = <<pos[1] + 1, pos[2]>> -> 2
      [] p = <<pos[1], pos[2] - 1>> -> 3
      [] p = <<pos[1], pos[2] + 1>> -> 4
      [] OTHER -> 0

\* C14: the positions getNeighbours returns are the positions of the grid
\* one orthogonal step from the argument, each once, with up before down
\* before left before right.
C14_NeighboursInOrder ==
    (genArgs # NoArgs) =>
        LET pos == genArgs.start
        IN  /\ Range(queue) = {p \in Positions(rows, columns) :
                                   Abs(p[1] - pos[1]) + Abs(p[2] - pos[2]) = 1}
            /\ \A i, j \in 1 .. Len(queue) :
                   i < j => (/\ Direction(queue[i], pos) > 0
                             /\ Direction(queue[i], pos) < Direction(queue[j], pos))

\* An inner cell: all four neighbours
C14_Witness == genArgs # NoArgs /\ Len(queue) = 4

----------------------------------------------------------------------------
\* SpecSelect: aStarStrategy.getNextNode alone, called as the loop of search
\* calls it (current = strategy.getNextNode(queue, goal)), on every queue of
\* at most SelLen positions (repeats included), every goal and every map of
\* scores on queued positions.  path holds the value the call returned.

InitSelect ==
    /\ rows = SelRows /\ columns = SelCols
    /\ grid = initialGrid(rows, columns)
    /\ start = Undefined
    /\ goal \in Positions(rows, columns)
    /\ strategy = "A*"
    /\ isAdding = FALSE
    /\ addingMode = "START"
    /\ canStep = TRUE
    /\ searchStarted = FALSE
    /\ isSearching = FALSE
    /\ searchGeneratorRef = "null"
    /\ genArgs = NoArgs
    /\ queue \in UNION {[1 .. n -> Positions(rows, columns)] : n \in 0 .. SelLen}
    /\ visited = {} /\ parentMap = EmptyMap
    /\ gScore \in UNION {[S -> 0 .. SelMaxG] : S \in SUBSET Range(queue)}
    /\ aParentKeys = <<>> /\ aParentMap = EmptyMap
    /\ result = "None"
    /\ path = <<>>

callGetNextNode ==
    /\ path = <<>>
    /\ \E o \in {aStarGetNextNode(queue, goal, gScore)} :
           /\ queue' = o.queue
           /\ path' = <<o.node>>
    /\ UNCHANGED <<rows, columns, grid, strategy, isAdding, addingMode, canStep,
                   searchStarted, isSearching, start, goal, searchGeneratorRef,
                   genArgs, visited, parentMap, gScore, aParentKeys, aParentMap,
                   result>>

NextSelect == callGetNextNode

SpecSelect == InitSelect /\ [][NextSelect]_vars

\* f of position p: the recorded score, 0 when there is none, plus the
\* Manhattan distance to the goal
FOf(p) ==
    (IF p \in DOMAIN gScore THEN gScore[p] ELSE 0)
        + Abs(p[1] - goal[1]) + Abs(p[2] - goal[2])

\* C15: a call of A* getNextNode on a queue that is not empty returns the
\* element at the lowest index among those of least f and leaves the queue
\* without that one element, the others in their order; on the empty queue
\* it returns null and leaves the queue empty.
C15_SelectsFirstLeastF ==
    [][callGetNextNode =>
          IF queue = <<>>
          THEN queue' = <<>> /\ path' = <<Undefined>>
          ELSE \E i \in 1 .. Len(queue) :
                   /\ \A j \in 1 .. Len(queue) : FOf(queue[i]) <= FOf(queue[j])
                   /\ \A j \in 1 .. (i - 1) : FOf(queue[j]) > FOf(queue[i])
                   /\ path' = <<queue[i]>>
                   /\ Len(queue') = Len(queue) - 1
                   /\ \A j \in 1 .. Len(queue') :
                          queue'[j] = IF j < i THEN queue[j] ELSE queue[j + 1]]_vars

\* A call that left two queued positions, one of them with the f of the
\* position returned, which has a recorded score
C15_Witness ==
    /\ Len(path) = 1 /\ path[1] # Undefined
    /\ Len(queue) = 2
    /\ path[1] \in DOMAIN gScore
    /\ \E j \in 1 .. Len(queue) :
           queue[j] # path[1] /\ FOf(queue[j]) = FOf(path[1])

----------------------------------------------------------------------------
\* SpecScenario: runs on the grid without walls of ScenRows x ScenCols cells,
\* started at the corner (0,0), for every goal and strategy, stepped by the
\* timer with no user action in between.

InitScenario ==
    /\ rows = ScenRows /\ columns = ScenCols
    /\ start = <<0, 0>>
    /\ goal \in Positions(rows, columns) \ {start}
    /\ grid = PaintedGrid(rows, columns, start, goal, {})
    /\ strategy \in STRATEGIES
    /\ isAdding = FALSE
    /\ addingMode = "WALL"
    /\ canStep = TRUE
    /\ searchStarted = TRUE
    /\ isSearching = TRUE
    /\ searchGeneratorRef = "null"
    /\ genArgs = NoArgs
    /\ queue = <<>> /\ visited = {} /\ parentMap = EmptyMap
    /\ gScore = EmptyMap /\ aParentKeys = <<>> /\ aParentMap = EmptyMap
    /\ result = "None"
    /\ path = <<>>

NextScenario == searchWrapper

SpecScenario == InitScenario /\ [][NextScenario]_vars

\* The cells a BFS or DFS run has expanded and not drawn the path over
VisitedCells == {p \in DOMAIN grid : grid[p] = "Visited"}

PathCells == {p \in DOMAIN grid : grid[p] = "Path"}

\* The BFS run from (0,0) to (0,4)
BfsToFourthColumn ==
    strategy = "BFS" /\ start = <<0, 0>> /\ goal = <<0, 4>> /\ WallFree(grid)

\* The run ends Found with the path (0,0),(0,1),(0,2),(0,3),(0,4): walked
\* back from the goal it is (0,4),(0,3),(0,2),(0,1), and the cells tagged
\* Path are the three between Start and Goal.
EndsOnFirstRow ==
    Terminal =>
        /\ result = "Found"
        /\ path = << <<0, 4>>, <<0, 3>>, <<0, 2>>, <<0, 1>> >>
        /\ PathCells = { <<0, 1>>, <<0, 2>>, <<0, 3>> }
        /\ grid[<<0, 0>>] = "Start" /\ grid[<<0, 4>>] = "Goal"

\* C16 as claimed: the first expansion is (0,1), the second (1,0), and the
\* run ends Found with the path along the first row.
C16_ScenarioAsClaimed ==
    BfsToFourthColumn =>
        /\ Cardinality(VisitedCells) = 1 => VisitedCells = { <<0, 1>> }
        /\ Cardinality(VisitedCells) = 2 => VisitedCells = { <<0, 1>>, <<1, 0>> }
        /\ EndsOnFirstRow

\* C16 amended: the first expansion is (1,0), the second (0,1) (the seeds are
\* taken in the order down, right), and the run ends Found with the path
\* along the first row.
C16_ScenarioDownFirst ==
    BfsToFourthColumn =>
        /\ Cardinality(VisitedCells) = 1 => VisitedCells = { <<1, 0>> }
        /\ Cardinality(VisitedCells) = 2 => VisitedCells = { <<1, 0>>, <<0, 1>> }
        /\ EndsOnFirstRow

C16_Witness ==
    /\ BfsToFourthColumn /\ rows = 5 /\ columns = 5
    /\ result = "Found" /\ Cardinality(VisitedCells) > 2

----------------------------------------------------------------------------
\* C17: in a BFS or DFS run a resumption leaves every recorded predecessor
\* as it is: a cell that has a predecessor keeps it for the rest of the run.
C17_PredecessorNeverReplaced ==
    [][(/\ searchWrapper
        /\ strategy \in {"BFS", "DFS"}
        /\ searchGeneratorRef = "yieldFalse")
       => \A p \in DOMAIN parentMap \cap DOMAIN parentMap' :
              parentMap'[p] = parentMap[p]]_vars

\* The moves on the chain of predecessors from position p back to a
\* position that has none
ChainMoves(p) == WalkParents(parentMap, p, <<>>, Cardinality(DOMAIN grid))

\* C18: while an A* run is suspended, every recorded score is the number of
\* moves on the position's chain of predecessors back to the start.
C18_ScoreIsChainLength ==
    (strategy = "A*" /\ searchGeneratorRef = "yieldFalse") =>
        \A p \in DOMAIN gScore :
            /\ ~ChainMoves(p).diverged
            /\ gScore[p] = Len(ChainMoves(p).path)

\* SpecMaze: as SpecRun, on the grid of MazeRows x MazeCols cells with at
\* most MazeWalls walls.

InitMaze ==
    /\ rows = MazeRows /\ columns = MazeCols
    /\ start \in Positions(rows, columns)
    /\ goal \in Positions(rows, columns) \ {start}
    /\ \E W \in SUBSET (Positions(rows, columns) \ {start, goal}) :
           /\ Cardinality(W) <= MazeWalls
           /\ grid = PaintedGrid(rows, columns, start, goal, W)
    /\ strategy \in STRATEGIES
    /\ isAdding = FALSE
    /\ addingMode = "WALL"
    /\ canStep = TRUE
    /\ searchStarted = TRUE
    /\ isSearching = TRUE
    /\ searchGeneratorRef = "null"
    /\ genArgs = NoArgs
    /\ queue = <<>> /\ visited = {} /\ parentMap = EmptyMap
    /\ gScore = EmptyMap /\ aParentKeys = <<>> /\ aParentMap = EmptyMap
    /\ result = "None"
    /\ path = <<>>

NextMaze == searchWrapper

SpecMaze == InitMaze /\ [][NextMaze]_vars

\* Whether the cells of S, each taken once, can be put in a sequence of
\* orthogonal moves that leads from position from to position to
RECURSIVE CanChain(_, _, _)
CanChain(from, S, to) ==
    IF S = {} THEN manhattanDistance(from, to) = 1
    ELSE \E p \in S : manhattanDistance(from, p) = 1 /\ CanChain(p, S \ {p}, to)

\* C19: when a run has ended Found, the cells tagged Path are the cells
\* between the ends of one sequence of orthogonal moves from the start to
\* the goal, and Start and Goal have their tags.
C19_PathCellsAreOnePath ==
    (result = "Found") =>
        /\ CanChain(start, PathCells, goal)
        /\ grid[start] = "Start" /\ grid[goal] = "Goal"

\* C20: a resumption that leaves the generator suspended leaves every member
\* of the visited set in it, and a resumption that expanded a position added
\* that one position to the set (the first resumption the start as well).
C20_VisitedGrowsByOne ==
    [][(searchWrapper /\ searchGeneratorRef' \in {"yieldFalse", "yieldTrue"})
       => /\ visited \subseteq visited'
          /\ Cardinality(visited') =
                 Cardinality(visited)
                     + (IF searchGeneratorRef = "null" THEN 1 ELSE 0)
                     + (IF result' = "Continue" THEN 1 ELSE 0)]_vars

\* A run under way whose frontier holds a position twice and a position that
\* has been expanded
C20_Witness ==
    /\ searchGeneratorRef = "yieldFalse"
    /\ \E i, j \in 1 .. Len(queue) : i < j /\ queue[i] = queue[j]
    /\ \E i \in 1 .. Len(queue) : queue[i] \in visited

----------------------------------------------------------------------------
\* How often position p occurs in the sequence q
Occurrences(q, p) == Cardinality({i \in 1 .. Len(q) : q[i] = p})

\* The frontier a resumption starts from: the seeded one when the
\* generator is new
FrontierBefore ==
    IF searchGeneratorRef = "null" THEN getNeighbours(start, grid) ELSE queue

\* The positions the step pushed: a position the step took from the
\* frontier was expanded, visited or a wall and is not pushed in that step,
\* so the pushed positions are those the frontier holds more often.
Pushed ==
    {p \in DOMAIN grid : Occurrences(queue', p) > Occurrences(FrontierBefore, p)}

\* C21: every position a resumption pushed is not in the visited set, is no
\* Wall and is one orthogonal move from a position in the visited set.
C21_PushedNextToVisited ==
    [][(searchWrapper /\ result' = "Continue") =>
          \A p \in Pushed :
              /\ p \notin visited'
              /\ grid'[p] # "Wall"
              /\ \E v \in visited' : manhattanDistance(p, v) = 1]_vars

\* A run under way that expanded a cell next to a wall and did not push the
\* wall
C21_Witness ==
    /\ searchGeneratorRef = "yieldFalse" /\ Len(queue) >= 2
    /\ \E w \in DOMAIN grid :
           /\ grid[w] = "Wall" /\ w \notin Range(queue)
           /\ manhattanDistance(w, start) > 1
           /\ \E v \in visited : manhattanDistance(w, v) = 1

\* C22: a BFS or DFS resumption that reports Continue leaves a cell tagged
\* Queued exactly when its position is in the frontier and the cell is not
\* Start, Goal, Visited or Wall, and leaves a cell tagged Visited exactly
\* when its position has been expanded in the run (is in the visited set and
\* is not the start).
C22_TagsMatchFrontierAndVisited ==
    [][(searchWrapper /\ strategy \in {"BFS", "DFS"} /\ result' = "Continue") =>
          \A p \in DOMAIN grid' :
              /\ grid'[p] = "Queued" <=>
                     (/\ p \in Range(queue')
                      /\ grid'[p] \notin {"Start", "Goal", "Visited", "Wall"})
              /\ grid'[p] = "Visited" <=> p \in visited' \ {genArgs'.start}]_vars

\* A DFS run under way with a Queued cell and with an expanded position
\* still in the frontier
C22_Witness ==
    /\ searchGeneratorRef = "yieldFalse" /\ strategy = "DFS"
    /\ \E p \in DOMAIN grid : grid[p] = "Queued"
    /\ \E i \in 1 .. Len(queue) : grid[queue[i]] = "Visited"

\* The results and grids of the resumptions from generator state e up to
\* the one that ends the run
RECURSIVE StepsToEnd(_, _, _)
StepsToEnd(e, strat, goalPos) ==
    Let(SearchLoop(e, strat, goalPos),
        LAMBDA o :
            IF o.out = "yieldFalse"
            THEN Let([grid |-> o.grid, queue |-> o.queue, visited |-> o.visited,
                      parentMap |-> o.parentMap, a |-> o.a],
                     LAMBDA e1 :
                         << <<o.out, o.grid>> >> \o StepsToEnd(e1, strat, goalPos))
            ELSE << <<o.out, o.grid>> >>)

\* The results and grids the run has ahead of it when the timer steps it
\* from the current state with no other action
StepsAhead ==
    CASE searchGeneratorRef = "yieldFalse" ->
             Let([grid |-> grid, queue |-> queue, visited |-> visited,
                  parentMap |-> parentMap,
                  a |-> [gScore |-> gScore, keys |-> aParentKeys,
                         parentMap |-> aParentMap]],
                 LAMBDA e : StepsToEnd(e, genArgs.strategy, genArgs.goal))
      [] searchGeneratorRef = "null" /\ canSearch /\ canStep ->
             Let(SearchPrologue(grid, start, strategy,
                                [gScore |-> gScore, keys |-> aParentKeys,
                                 parentMap |-> aParentMap]),
                 LAMBDA e : StepsToEnd(e, strategy, goal))
      [] OTHER -> <<>>

\* C23: a press of STOP or SEARCH changes isSearching (and searchStarted)
\* and nothing else: the generator, its frontier, visited set and
\* predecessor map, the A* scores and the grid stay, and so do the results
\* and grids the run has ahead of it.
C23_PauseKeepsTheRun ==
    [][searchButton =>
          /\ UNCHANGED <<grid, searchGeneratorRef, genArgs, queue, visited,
                         parentMap, gScore, aParentKeys, aParentMap, start, goal,
                         strategy, canStep, result, path>>
          /\ StepsAhead' = StepsAhead]_vars

\* A paused run with steps ahead of it
C23_Witness ==
    /\ ~isSearching /\ searchStarted
    /\ searchGeneratorRef = "yieldFalse" /\ result = "Continue"
    /\ Len(StepsAhead) >= 2

\* C24: once stepping is disabled, a step that is not a step of reset,
\* generate, the strategy select or a size slider leaves the grid, the
\* result, the paint mode and the positions as they are, creates no
\* generator and leaves stepping disabled.
C24_FinishedGridStays ==
    [][(~canStep /\ ~(reset \/ generate \/ onStrategyChange \/ resize)) =>
          /\ grid' = grid /\ result' = result
          /\ addingMode' = addingMode /\ start' = start /\ goal' = goal
          /\ searchGeneratorRef' = "null" /\ ~canStep'
          /\ isSearching' = isSearching]_vars

\* A finished run with its path drawn, the mouse button held on the grid
C24_Witness ==
    /\ ~canStep /\ result = "Found" /\ isAdding
    /\ \E p \in DOMAIN grid : grid[p] = "Path"

\* No walk over the predecessor map pm comes back to a position it left
Acyclic(pm) ==
    \A p \in DOMAIN pm :
        ~WalkParents(pm, p, <<>>, Cardinality(DOMAIN pm)).diverged

\* C25: the predecessor map of the aStarStrategy object has no cycle, the
\* walk of getOptimalPath from its last-inserted key returns and lists no
\* position twice, and no resumption is left in a walk that does not return.
C25_AStarParentsAcyclic ==
    /\ Acyclic(aParentMap)
    /\ LET w == getOptimalPath(aParentKeys, aParentMap, Cardinality(DOMAIN grid))
       IN  /\ ~w.diverged
           /\ Cardinality(Range(w.path)) = Len(w.path)
    /\ searchGeneratorRef # "hung"

\* An A* run under way whose walk from the last-inserted key makes at least
\* two moves
C25_Witness ==
    /\ strategy = "A*" /\ searchGeneratorRef = "yieldFalse"
    /\ Len(getOptimalPath(aParentKeys, aParentMap, Cardinality(DOMAIN grid)).path) >= 2

====
